---- MODULE Spec2Model ----
(***************************************************************************)
(* Model of data/scripts/daily.js: the daily logger that appends one entry *)
(* per UTC day to data/log.json.                                           *)
(*                                                                         *)
(* JavaScript runs every piece of synchronous code to completion, so the   *)
(* model takes a step of main() or of a provider only at the places where  *)
(* the code awaits; the steps of main()'s synchronous prefix and suffix    *)
(* are kept apart (pc) so that their order can be stated.                  *)
(***************************************************************************)
EXTENDS Integers, Sequences, FiniteSets, Bags, TLC

\* --------------------------------------------------------------- JS values
\* A JavaScript / JSON value: k is its kind, n its number, s its characters.
Undef == [k |-> "undef", n |-> 0, s |-> <<>>]
Null == [k |-> "null", n |-> 0, s |-> <<>>]
NaN == [k |-> "nan", n |-> 0, s |-> <<>>]
Num(i) == [k |-> "num", n |-> i, s |-> <<>>]
Str(cs) == [k |-> "str", n |-> 0, s |-> cs]

DigitChars == <<"0", "1", "2", "3", "4", "5", "6", "7", "8", "9">>

IsDigit(c) == \E i \in 1..Len(DigitChars) : DigitChars[i] = c

DigitVal(c) == (CHOOSE i \in 1..Len(DigitChars) : DigitChars[i] = c) - 1

RECURSIVE DecimalValue(_)
DecimalValue(cs) ==
    IF cs = <<>> THEN 0
    ELSE 10 * DecimalValue(SubSeq(cs, 1, Len(cs) - 1)) + DigitVal(cs[Len(cs)])

\* Number(v) for the values a response field can hold: undefined -> NaN,
\* null -> 0, "" -> 0, a string of decimal digits -> its value, any other
\* string -> NaN.
Number(v) ==
    CASE v.k = "num" -> v
      [] v.k = "nan" -> NaN
      [] v.k = "undef" -> NaN
      [] v.k = "null" -> Num(0)
      [] v.k = "str" ->
            IF \A i \in 1..Len(v.s) : IsDigit(v.s[i])
            THEN Num(DecimalValue(v.s))
            ELSE NaN

RECURSIVE DecimalChars(_)
DecimalChars(i) ==
    IF i < 10 THEN <<DigitChars[i + 1]>>
    ELSE Append(DecimalChars(i \div 10), DigitChars[(i % 10) + 1])

\* String(v): a string stays, a number prints in decimal, the other kinds
\* print as their name (one element stands for the whole word)
String(v) ==
    CASE v.k = "str" -> v
      [] v.k = "undef" -> Str(<<"undefined">>)
      [] v.k = "null" -> Str(<<"null">>)
      [] v.k = "nan" -> Str(<<"NaN">>)
      [] v.k = "num" -> Str(DecimalChars(v.n))

\* a test that only NaN passes, as if the code had written isNaN(x) for !x
FalsyNaNOnly(x) == x.k = "nan"

\* !x for a number: true of 0 and of NaN
Falsy(x) == x.k = "nan" \/ (x.k = "num" /\ x.n = 0)

\* a * b on numbers
JsMul(a, b) ==
    IF a.k = "nan" \/ b.k = "nan" THEN NaN ELSE Num(a.n * b.n)

\* JSON.stringify of a number: NaN is written as null
JsonNumber(x) == IF x.k = "nan" THEN Null ELSE x

\* ------------------------------------------------------------------- dates
\* The UTC days of the model, as <<year, month, day>>.
Dates == {<<2026, 11, 30>>, <<2026, 12, 1>>}

\* padStart(2, "0")
PadStart2(cs) == IF Len(cs) < 2 THEN <<"0">> \o cs ELSE cs

\* todayYmdUTC(): `${y}-${m}-${day}` of the clock's UTC day
todayYmdUTC(d) ==
    DecimalChars(d[1]) \o <<"-">> \o PadStart2(DecimalChars(d[2]))
        \o <<"-">> \o PadStart2(DecimalChars(d[3]))

\* toISOString() of the clock, to the day
toISOString(d) == todayYmdUTC(d) \o <<"T">>

\* the code unit of a character of a date string ("-" sorts before "0")
CharCode(c) == IF c = "-" THEN 45 ELSE IF c = "T" THEN 84 ELSE 48 + DigitVal(c)

\* a < b on strings: the first differing character decides, a proper prefix
\* is smaller
RECURSIVE StrLess(_, _)
StrLess(a, b) ==
    IF b = <<>> THEN FALSE
    ELSE IF a = <<>> THEN TRUE
    ELSE IF a[1] = b[1] THEN StrLess(Tail(a), Tail(b))
    ELSE CharCode(a[1]) < CharCode(b[1])

\* the comparator of log.entries.sort
CompareDate(a, b) ==
    IF StrLess(a.date, b.date) THEN 0 - 1 ELSE IF StrLess(b.date, a.date) THEN 1 ELSE 0

\* Array.prototype.sort with that comparator: stable, ascending
RECURSIVE InsertSorted(_, _)
InsertSorted(e, es) ==
    IF es = <<>> THEN <<e>>
    ELSE IF CompareDate(e, es[Len(es)]) >= 0 THEN Append(es, e)
    ELSE Append(InsertSorted(e, SubSeq(es, 1, Len(es) - 1)), es[Len(es)])

\* the entries left in the order of the pushes, as if sort were not called
Unsorted(es) == es

RECURSIVE SortEntries(_)
SortEntries(es) ==
    IF es = <<>> THEN <<>>
    ELSE InsertSorted(es[Len(es)], SortEntries(SubSeq(es, 1, Len(es) - 1)))

\* --------------------------------------------------------------- responses
\* What the network gives one fetchJson call: a parsed body (kind "ok"), or
\* a non-success status ("http"), a network error ("neterr"), a body that
\* is not JSON ("parse"), or the abort by the call's own timer ("abort").
NetFailures == {"http", "neterr", "parse"}

\* the failures that are not the call's own timeout look alike to the caller
\* of fetchJson: the orchestration is run with one of them
SomeNetFailure == "http"

NetFail(kind) == [kind |-> kind, body |-> Undef]

NetOk(body) == [kind |-> "ok", body |-> body]

\* the forms a numeric field of a response takes, v being a valid quantity:
\* missing, zero, the number
FieldValues(v) == {Undef, Num(0), Num(v)}

\* the same and more: null, "", "0", the number as text
RichFieldValues(v) ==
    FieldValues(v) \cup {Null, Str(<<>>), Str(<<"0">>), Str(<<"x">>), Str(DecimalChars(v))}

\* quantities the services quote
ValidUsd == 2
ValidIdr == 5
ValidRate == 3
ValidFng == 55
ValidStamp == 170

\* j?.data?.[0] of the sentiment response: absent, or a data point
FngBodies ==
    {[d |-> FALSE, value |-> Undef, value_classification |-> Undef, timestamp |-> Undef]}
    \cup {[d |-> TRUE, value |-> Str(DecimalChars(ValidFng)),
            value_classification |-> Str(<<"Greed">>),
            timestamp |-> Str(DecimalChars(ValidStamp))],
          [d |-> TRUE, value |-> Undef, value_classification |-> Undef,
            timestamp |-> Str(<<"x">>)]}

\* j?.rates?.IDR
FxBodies == {[IDR |-> v] : v \in FieldValues(ValidRate)}

\* j?.bitcoin?.usd and j?.bitcoin?.idr
Btc1Bodies ==
    {[usd |-> u, idr |-> i] : u \in FieldValues(ValidUsd), i \in FieldValues(ValidIdr)}

\* j?.price
Btc2Bodies == {[price |-> v] : v \in FieldValues(ValidUsd)}

\* j?.data?.amount
Btc3Bodies == {[amount |-> v] : v \in FieldValues(ValidUsd)}

Bodies(label) ==
    CASE label = "FNG" -> FngBodies
      [] label \in {"FX1", "FX2", "FX3"} -> FxBodies
      [] label = "BTC1" -> Btc1Bodies
      [] label = "BTC2" -> Btc2Bodies
      [] label = "BTC3" -> Btc3Bodies

\* what a call of the provider `label` can get, its own timeout apart
Nets(label) == {NetFail(SomeNetFailure)} \cup {NetOk(b) : b \in Bodies(label)}

\* ---------------------------------------------------------------- providers
\* The outcome of an async function: its value, or the error it throws;
\* an error is known by the label of the provider whose code raised it.
Ok(val) == [ok |-> TRUE, val |-> val, err |-> "none"]

Fail(label) == [ok |-> FALSE, val |-> Undef, err |-> label]

\* fetchJson: the body if the response is a success and parses, else throws
fetchJson(label, net) == IF net.kind = "ok" THEN Ok(net.body) ELSE Fail(label)

NoFng == [value |-> Undef, label |-> Undef, timestamp |-> Undef]

getFngToday(net) ==
    LET j == fetchJson("FNG", net)
    IN  IF ~j.ok THEN j
        ELSE IF ~j.val.d THEN Fail("FNG")
        ELSE Ok([value |-> Number(j.val.value),
                 label |-> String(j.val.value_classification),
                 timestamp |-> Number(j.val.timestamp)])

FxSource(label) ==
    CASE label = "FX1" -> "open.er-api.com"
      [] label = "FX2" -> "frankfurter.app"
      [] label = "FX3" -> "exchangerate.host"

\* fx1, fx2, fx3
fx(label, net) ==
    LET j == fetchJson(label, net)
    IN  IF ~j.ok THEN j
        ELSE LET idr == Number(j.val.IDR)
             IN  IF Falsy(idr) THEN Fail(label)
                 ELSE Ok([usdIdr |-> idr, source |-> FxSource(label)])

NoBtc == [usd |-> Undef, idr |-> Undef, sourceNote |-> <<>>]

btc1(net) ==
    LET j == fetchJson("BTC1", net)
    IN  IF ~j.ok THEN j
        ELSE LET usd == Number(j.val.usd)
                 idr == Number(j.val.idr)
             IN  IF Falsy(usd) \/ Falsy(idr) THEN Fail("BTC1")
                 ELSE Ok([usd |-> usd, idr |-> idr,
                          sourceNote |-> <<"BTC: CoinGecko (USD+IDR)">>])

\* a btc2 that calls getUsdIdr() before it looks at the price
btc2PriceUnchecked(net) ==
    LET j == fetchJson("BTC2", net)
    IN  IF ~j.ok THEN j ELSE Ok(Number(j.val.price))

\* btc2 up to its await of getUsdIdr(): the validated USDT price
btc2Price(net) ==
    LET j == fetchJson("BTC2", net)
    IN  IF ~j.ok THEN j
        ELSE LET usdt == Number(j.val.price)
             IN  IF Falsy(usdt) THEN Fail("BTC2") ELSE Ok(usdt)

\* btc2 after getUsdIdr() returned fx
btc2Quote(usdt, fx_) ==
    [usd |-> usdt, idr |-> JsMul(usdt, fx_.usdIdr),
     sourceNote |-> <<"BTC: Binance (BTCUSDT) + FX: ", fx_.source>>]

\* btc3 up to its await of getUsdIdr(): the validated USD price
btc3Price(net) ==
    LET j == fetchJson("BTC3", net)
    IN  IF ~j.ok THEN j
        ELSE LET usd == Number(j.val.amount)
             IN  IF Falsy(usd) THEN Fail("BTC3") ELSE Ok(usd)

\* a btc3 that leaves the conversion out: idr: usd
btc3QuoteUnconverted(usd, fx_) ==
    [usd |-> usd, idr |-> usd,
     sourceNote |-> <<"BTC: Coinbase (BTC-USD) + FX: ", fx_.source>>]

\* btc3 after getUsdIdr() returned fx
btc3Quote(usd, fx_) ==
    [usd |-> usd, idr |-> JsMul(usd, fx_.usdIdr),
     sourceNote |-> <<"BTC: Coinbase (BTC-USD) + FX: ", fx_.source>>]

\* a try3 without its catches: the first failure is thrown
try3NoFallback(slot, r) ==
    IF r.ok THEN [act |-> "return", slot |-> slot, r |-> r]
    ELSE [act |-> "throw", slot |-> slot, r |-> r]

\* a try3 whose second line is missing: f3 follows f1
try3Skipping(slot, r) ==
    IF r.ok THEN [act |-> "return", slot |-> slot, r |-> r]
    ELSE IF slot < 3 THEN [act |-> "call", slot |-> 3, r |-> r]
    ELSE [act |-> "throw", slot |-> slot, r |-> r]

\* try3 after its provider number `slot` ended with outcome r: return r's
\* value, call the next provider, or (third provider) let r's error through
try3(slot, r) ==
    IF r.ok THEN [act |-> "return", slot |-> slot, r |-> r]
    ELSE IF slot < 3 THEN [act |-> "call", slot |-> slot + 1, r |-> r]
    ELSE [act |-> "throw", slot |-> slot, r |-> r]

\* -------------------------------------------------------------------- state
\* the for loop of main: for (let i = 0; i < MaxAttempts; i++)
MaxAttempts == 3

\* the catch with its bound off by one, upwards: i < 3, so that it sleeps
\* after the last attempt too
LastAttemptLate == MaxAttempts

\* and downwards: i < 1, so that the second failure is thrown
LastAttemptEarly == MaxAttempts - 2

\* its catch: if (i < LastAttempt) await sleep(1500); else throw e
LastAttempt == 2

VARIABLES
    disk,      \* data/log.json: whether it exists, and the document in it
    now,       \* the UTC day the clock shows
    pc,        \* where main() is: idle (no process), loaded, await, sleep,
               \*   assemble, drain (main returned, calls pending)
    outcome,   \* how main() ended: none, skip, done, fatal
    exitCode,  \* the exit status of the process, once it has ended
    rerun,     \* whether the invocation before this one wrote an entry for
               \*   the date of this one
    disk0,     \* data/log.json as it was when this invocation started
    ymd,       \* main: const ymd
    log,       \* main: const log
    attempt,   \* main: let i
    fngP,      \* the getFngToday() promise that Promise.all holds
    btcP,      \* the getBtcPrice() promise that Promise.all holds
    orphans,   \* the calls of failed attempts that are still running: a bag
    timers,    \* the pending setTimeout timers: a bag
    fng,       \* main: let fng
    btc,       \* main: let btc
    entry,     \* main: const entry
    err,       \* main: the e caught by the retry loop
    failures,  \* how often the catch of the retry loop has run
    reads,     \* readLog calls of this invocation
    writes,    \* writeLog calls of this invocation
    http,      \* whether this invocation has issued an HTTP request
    t3,        \* a run of try3 over three given providers, on its own
    chain,     \* a run of getBtcPrice(), on its own
    last       \* the response that run handled last, and where it was then

vars ==
    <<disk, now, pc, outcome, exitCode, rerun, disk0, ymd, log, attempt, fngP, btcP,
      orphans, timers, fng, btc, entry, err, failures, reads, writes, http,
      t3, chain, last>>

\* the variables of the invocations of main()
mainVars ==
    <<disk, now, pc, outcome, exitCode, rerun, disk0, ymd, log, attempt, fngP, btcP,
      orphans, timers, fng, btc, entry, err, failures, reads, writes, http>>

\* the variables of the runs of try3 and of getBtcPrice() on their own
aside == <<t3, chain, last>>

NoEntry ==
    [date |-> <<>>, fng_value |-> Undef, fng_label |-> Undef, fng_timestamp |-> Undef,
     btc_usd |-> Undef, btc_idr |-> Undef, source |-> <<>>, created_at_utc |-> <<>>]

NoLog == [site_start |-> Undef, entries |-> <<>>]

\* no promise
FngIdle == [st |-> "idle", att |-> 0, res |-> NoFng]

BtcIdle ==
    [st |-> "idle", att |-> 0, slot |-> 0, fxslot |-> 0, usd |-> Undef, res |-> NoBtc,
     err |-> "none"]

\* getFngToday() called in attempt i: its fetchJson is in flight
FngCalled(i) == [st |-> "call", att |-> i, res |-> NoFng]

\* getBtcPrice() called in attempt i: try3 called btc1, whose fetchJson is
\* in flight
BtcCalled(i) == [BtcIdle EXCEPT !.st = "call", !.att = i, !.slot = 1]

AbsentFile == [exists |-> FALSE, site_start |-> Null, entries |-> <<>>]

EmptyDocument == [exists |-> TRUE, site_start |-> Null, entries |-> <<>>]

\* no run of try3 on its own
NoTry3 == [rs |-> <<>>, calls |-> <<>>, st |-> "idle", res |-> Fail("none")]

\* no response handled yet
NoLast == [label |-> "none", slot |-> 0, fxslot |-> 0, net |-> NetFail("none")]

\* no process runs, the log file being `file` and the clock showing day d
Idle(file, d) ==
    /\ disk = file
    /\ now = d
    /\ pc = "idle"
    /\ outcome = "none"
    /\ exitCode = 0
    /\ rerun = FALSE
    /\ disk0 = disk
    /\ ymd = <<>>
    /\ log = NoLog
    /\ attempt = 0
    /\ fngP = FngIdle
    /\ btcP = BtcIdle
    /\ orphans = EmptyBag
    /\ timers = EmptyBag
    /\ fng = NoFng
    /\ btc = NoBtc
    /\ entry = NoEntry
    /\ err = "none"
    /\ failures = 0
    /\ reads = 0
    /\ writes = 0
    /\ http = FALSE

\* before the first invocation: the log file is absent or an empty document
Init ==
    /\ \E file \in {AbsentFile, EmptyDocument} : \E d \in Dates : Idle(file, d)
    /\ t3 = NoTry3
    /\ chain = BtcIdle
    /\ last = NoLast

\* ------------------------------------------------------------ log document
\* a readLog that starts a fresh document whether or not the file exists
readLogFresh(file) == [site_start |-> Null, entries |-> <<>>]

\* readLog: a fresh document if the file is absent, else the parsed file
readLog(file) ==
    IF ~file.exists THEN [site_start |-> Null, entries |-> <<>>]
    ELSE [site_start |-> file.site_start, entries |-> file.entries]

\* JSON.stringify of one entry: the numbers go through JsonNumber
StringifyEntry(e) ==
    [e EXCEPT !.fng_value = JsonNumber(e.fng_value),
              !.fng_timestamp = JsonNumber(e.fng_timestamp),
              !.btc_usd = JsonNumber(e.btc_usd),
              !.btc_idr = JsonNumber(e.btc_idr)]

\* writeLog: the file now holds the document as JSON
writeLog(doc) ==
    [exists |-> TRUE, site_start |-> doc.site_start,
     entries |-> [i \in 1..Len(doc.entries) |-> StringifyEntry(doc.entries[i])]]

\* the test left out: log.site_start = ymd in every invocation
AlwaysUnset(v) == TRUE

\* !log.site_start
SiteUnset(v) == v.k \in {"null", "undef"} \/ (v.k = "str" /\ v.s = <<>>)

\* a check of the newest entry only, as if the code had looked at the end
\* of the list
LastEntryFor(doc, date) ==
    doc.entries # <<>> /\ doc.entries[Len(doc.entries)].date = date

\* a check that never finds the entry, as if it compared to a Date object
NeverLogged(doc, date) == FALSE

\* log.entries.some((e) => e.date === ymd)
HasEntryFor(doc, date) == \E i \in 1..Len(doc.entries) : doc.entries[i].date = date

\* ------------------------------------------------------------------- timers
\* A timer is known by the call that armed it: the fetchJson call of
\* getFngToday(), the fetchJson call of price provider slot (fxslot 0) or of
\* FX provider fxslot inside it, or sleep(1500).
FngTimer == <<"fng", 0, 0>>

BtcTimer(t) == <<"btc", t.slot, t.fxslot>>

SleepTimer == <<"sleep", 0, 0>>

setTimeout(tm, id) == tm (+) SetToBag({id})

\* fetchJson without its finally block: the timer is left armed
clearNothing(tm, id) == tm

clearTimeout(tm, id) == tm (-) SetToBag({id})

\* --------------------------------------------------------------- the chains
FxLabel(fxslot) == CASE fxslot = 1 -> "FX1" [] fxslot = 2 -> "FX2" [] fxslot = 3 -> "FX3"

BtcLabel(slot) == CASE slot = 1 -> "BTC1" [] slot = 2 -> "BTC2" [] slot = 3 -> "BTC3"

\* the provider whose fetchJson call the chain t is in
CallLabel(t) == IF t.fxslot = 0 THEN BtcLabel(t.slot) ELSE FxLabel(t.fxslot)

\* try3("BTC", btc1, btc2, btc3) when its provider t.slot ended with r
BtcChain(t, r) ==
    LET c == try3(t.slot, r)
    IN  CASE c.act = "return" -> [t EXCEPT !.st = "ok", !.res = c.r.val]
          [] c.act = "call" -> [t EXCEPT !.slot = c.slot, !.fxslot = 0, !.usd = Undef]
          [] c.act = "throw" -> [t EXCEPT !.st = "fail", !.err = c.r.err]

\* the quote btc2 / btc3 returns once getUsdIdr() gave fx_
BtcQuote(slot, usd, fx_) == IF slot = 2 THEN btc2Quote(usd, fx_) ELSE btc3Quote(usd, fx_)

\* getBtcPrice() when the fetchJson call it is in ends with net: the price
\* request of btc1 / btc2 / btc3, or a request of the FX chain that btc2 /
\* btc3 runs through getUsdIdr() after its price is valid
BtcStep(t, net) ==
    IF t.fxslot = 0
    THEN IF t.slot = 1 THEN BtcChain(t, btc1(net))
         ELSE LET p == IF t.slot = 2 THEN btc2Price(net) ELSE btc3Price(net)
              IN  IF p.ok THEN [t EXCEPT !.usd = p.val, !.fxslot = 1]
                  ELSE BtcChain(t, p)
    ELSE LET c == try3(t.fxslot, fx(FxLabel(t.fxslot), net))
         IN  CASE c.act = "return" -> BtcChain(t, Ok(BtcQuote(t.slot, t.usd, c.r.val)))
               [] c.act = "call" -> [t EXCEPT !.fxslot = c.slot]
               [] c.act = "throw" -> BtcChain(t, Fail(c.r.err))

\* getFngToday() when its fetchJson call ends with net
FngStep(t, net) ==
    LET r == getFngToday(net)
    IN  IF r.ok THEN [t EXCEPT !.st = "ok", !.res = r.val] ELSE [t EXCEPT !.st = "fail"]

\* Promise.any in the place of Promise.all: fulfilled by the first success
PromiseAny(f, b) ==
    IF f = "ok" \/ b = "ok" THEN "fulfilled"
    ELSE IF f = "fail" /\ b = "fail" THEN "rejected"
    ELSE "pending"

\* Promise.allSettled in the place of Promise.all: a rejection is seen only
\* when neither promise is pending
PromiseAllSettled(f, b) ==
    IF f = "call" \/ b = "call" THEN "pending"
    ELSE IF f = "ok" /\ b = "ok" THEN "fulfilled"
    ELSE "rejected"

\* Promise.all([f, b]) from the states of its two promises
PromiseAll(f, b) ==
    IF f = "fail" \/ b = "fail" THEN "rejected"
    ELSE IF f = "ok" /\ b = "ok" THEN "fulfilled"
    ELSE "pending"

\* A call that goes on after its attempt failed: nothing refers to its
\* promise, so it is known by where it is only.
FngOrphan == [kind |-> "fng", slot |-> 0, fxslot |-> 0, usd |-> Undef]

BtcOrphan(t) == [kind |-> "btc", slot |-> t.slot, fxslot |-> t.fxslot, usd |-> t.usd]

\* the promises of a failed attempt that are still pending
Orphaned(f, b) ==
    (IF f.st = "call" THEN SetToBag({FngOrphan}) ELSE EmptyBag)
        (+) (IF b.st = "call" THEN SetToBag({BtcOrphan(b)}) ELSE EmptyBag)

\* the getBtcPrice() an orphan is the rest of
OrphanChain(o) ==
    [BtcIdle EXCEPT !.st = "call", !.slot = o.slot, !.fxslot = o.fxslot, !.usd = o.usd]

\* ------------------------------------------------------------------ actions
\* Promise.all([getFngToday(), getBtcPrice()]): both functions run to their
\* first await, the fetch of fetchJson, each with its timer armed
FetchBoth(i) ==
    /\ fngP' = FngCalled(i)
    /\ btcP' = BtcCalled(i)
    /\ timers' = setTimeout(setTimeout(clearTimeout(timers, SleepTimer), FngTimer),
                            BtcTimer(BtcCalled(i)))
    /\ http' = TRUE

\* main() up to the idempotence check: the date, the log, site_start
Start(d) ==
    /\ pc = "idle"
    /\ now' = d
    /\ rerun' = (outcome = "done" /\ ymd = todayYmdUTC(d))
    /\ disk0' = disk
    /\ ymd' = todayYmdUTC(d)
    /\ log' = LET l == readLog(disk)
              IN  [l EXCEPT !.site_start = IF SiteUnset(@) THEN Str(ymd') ELSE @]
    /\ reads' = 1
    /\ writes' = 0
    /\ http' = FALSE
    /\ outcome' = "none"
    /\ exitCode' = 0
    /\ attempt' = 0
    /\ fngP' = FngIdle
    /\ btcP' = BtcIdle
    /\ fng' = NoFng
    /\ btc' = NoBtc
    /\ entry' = NoEntry
    /\ err' = "none"
    /\ failures' = 0
    /\ pc' = "loaded"
    /\ UNCHANGED <<disk, orphans, timers, aside>>

\* already logged today: main() returns
Skip ==
    /\ pc = "loaded"
    /\ HasEntryFor(log, ymd)
    /\ outcome' = "skip"
    /\ pc' = "drain"
    /\ UNCHANGED <<disk, now, exitCode, rerun, disk0, ymd, log, attempt, fngP, btcP,
                   orphans, timers, fng, btc, entry, err, failures, reads, writes, http,
                   aside>>

\* not logged today: the retry loop starts, i = 0
FirstAttempt ==
    /\ pc = "loaded"
    /\ ~HasEntryFor(log, ymd)
    /\ FetchBoth(0)
    /\ pc' = "await"
    /\ UNCHANGED <<disk, now, outcome, exitCode, rerun, disk0, ymd, log, attempt,
                   orphans, fng, btc, entry, err, failures, reads, writes, aside>>

\* What follows when a fetchJson call of the attempt main() awaits ended and
\* left the two promises as f and b, e being the error if one rejected and tm
\* the timers: the rest of the loop body, which is break (both fulfilled), or
\* catch (one rejected) and then sleep or, for the last attempt, throw, which
\* ends in process.exit(1)
Settled(f, b, e, tm) ==
    LET all == PromiseAll(f.st, b.st)
    IN  CASE all = "pending" ->
                /\ fngP' = f
                /\ btcP' = b
                /\ timers' = tm
                /\ UNCHANGED <<pc, outcome, exitCode, orphans, fng, btc, err, failures>>
          [] all = "fulfilled" ->
                /\ fngP' = f
                /\ btcP' = b
                /\ timers' = tm
                /\ fng' = f.res
                /\ btc' = b.res
                /\ pc' = "assemble"
                /\ UNCHANGED <<outcome, exitCode, orphans, err, failures>>
          [] all = "rejected" /\ attempt < LastAttempt ->
                /\ fngP' = FngIdle
                /\ btcP' = BtcIdle
                /\ orphans' = orphans (+) Orphaned(f, b)
                /\ timers' = setTimeout(tm, SleepTimer)
                /\ err' = e
                /\ failures' = failures + 1
                /\ pc' = "sleep"
                /\ UNCHANGED <<outcome, exitCode, fng, btc>>
          [] all = "rejected" /\ attempt >= LastAttempt ->
                /\ fngP' = FngIdle
                /\ btcP' = BtcIdle
                /\ orphans' = EmptyBag
                /\ timers' = EmptyBag
                /\ err' = e
                /\ failures' = failures + 1
                /\ outcome' = "fatal"
                /\ exitCode' = 1
                /\ pc' = "idle"
                /\ UNCHANGED <<fng, btc>>

\* the fetchJson call of the awaited getFngToday() ends with net
FngEvent(net) ==
    /\ Settled(FngStep(fngP, net), btcP, "FNG", clearTimeout(timers, FngTimer))
    /\ UNCHANGED <<disk, now, rerun, disk0, ymd, log, attempt, entry, reads, writes,
                   http, aside>>

\* the sentiment service answers, or the request fails
FngRespond ==
    /\ pc = "await"
    /\ fngP.st = "call"
    /\ \E net \in Nets("FNG") : FngEvent(net)

\* the timer of the sentiment request fires: controller.abort()
FngTimeout ==
    /\ pc = "await"
    /\ fngP.st = "call"
    /\ BagIn(FngTimer, timers)
    /\ FngEvent(NetFail("abort"))

\* the fetchJson call the awaited getBtcPrice() is in ends with net; if the
\* chain goes on, the next call arms its timer
BtcEvent(net) ==
    LET b == BtcStep(btcP, net)
        tm == clearTimeout(timers, BtcTimer(btcP))
    IN  /\ Settled(fngP, b, b.err,
                   IF b.st = "call" THEN setTimeout(tm, BtcTimer(b)) ELSE tm)
        /\ UNCHANGED <<disk, now, rerun, disk0, ymd, log, attempt, entry, reads, writes,
                       http, aside>>

\* a price or FX service answers, or the request fails
BtcRespond ==
    /\ pc = "await"
    /\ btcP.st = "call"
    /\ \E net \in Nets(CallLabel(btcP)) : BtcEvent(net)

\* the timer of the price or FX request fires: controller.abort()
BtcTimeout ==
    /\ pc = "await"
    /\ btcP.st = "call"
    /\ BagIn(BtcTimer(btcP), timers)
    /\ BtcEvent(NetFail("abort"))

\* the event loop hands out completions only while no code is running
Awaiting == pc \in {"await", "sleep", "drain"}

\* the fetchJson call of the orphan o ends with net: a sentiment call is
\* over, a price chain goes on as if it were awaited
OrphanEvent(o, net) ==
    /\ IF o.kind = "fng"
       THEN /\ orphans' = orphans (-) SetToBag({o})
            /\ timers' = clearTimeout(timers, FngTimer)
       ELSE LET b == BtcStep(OrphanChain(o), net)
                tm == clearTimeout(timers, BtcTimer(o))
            IN  IF b.st = "call"
                THEN /\ orphans' = (orphans (-) SetToBag({o})) (+) SetToBag({BtcOrphan(b)})
                     /\ timers' = setTimeout(tm, BtcTimer(b))
                ELSE /\ orphans' = orphans (-) SetToBag({o})
                     /\ timers' = tm
    /\ UNCHANGED <<disk, now, pc, outcome, exitCode, rerun, disk0, ymd, log, attempt,
                   fngP, btcP, fng, btc, entry, err, failures, reads, writes, http,
                   aside>>

OrphanLabel(o) == IF o.kind = "fng" THEN "FNG" ELSE CallLabel(o)

OrphanTimer(o) == IF o.kind = "fng" THEN FngTimer ELSE BtcTimer(o)

\* a service answers a call of a failed attempt, or the request fails
OrphanRespond ==
    /\ Awaiting
    /\ \E o \in BagToSet(orphans) : \E net \in Nets(OrphanLabel(o)) : OrphanEvent(o, net)

\* the timer of a call of a failed attempt fires
OrphanTimeout ==
    /\ Awaiting
    /\ \E o \in BagToSet(orphans) :
          /\ BagIn(OrphanTimer(o), timers)
          /\ OrphanEvent(o, NetFail("abort"))

\* sleep(1500) is over: i++, and the next attempt if i < MaxAttempts; a loop
\* that ended without a break would leave fng undefined, and main() would
\* throw at fng.value
Wake ==
    /\ pc = "sleep"
    /\ BagIn(SleepTimer, timers)
    /\ attempt' = attempt + 1
    /\ err' = "none"
    /\ IF attempt + 1 < MaxAttempts
       THEN /\ FetchBoth(attempt + 1)
            /\ pc' = "await"
            /\ UNCHANGED <<outcome, exitCode, orphans>>
       ELSE /\ fngP' = FngIdle
            /\ btcP' = BtcIdle
            /\ orphans' = EmptyBag
            /\ timers' = EmptyBag
            /\ outcome' = "fatal"
            /\ exitCode' = 1
            /\ pc' = "idle"
            /\ UNCHANGED http
    /\ UNCHANGED <<disk, now, rerun, disk0, ymd, log, fng, btc, entry, failures, reads,
                   writes, aside>>

\* the same with writeLog(log) called before the push
WriteThenAppend ==
    /\ pc = "assemble"
    /\ entry' = [date |-> ymd,
                 fng_value |-> fng.value,
                 fng_label |-> fng.label,
                 fng_timestamp |-> fng.timestamp,
                 btc_usd |-> btc.usd,
                 btc_idr |-> btc.idr,
                 source |-> btc.sourceNote,
                 created_at_utc |-> toISOString(now)]
    /\ disk' = writeLog(log)
    /\ log' = [log EXCEPT !.entries = SortEntries(Append(@, entry'))]
    /\ writes' = writes + 1
    /\ outcome' = "done"
    /\ pc' = "drain"
    /\ UNCHANGED <<now, exitCode, rerun, disk0, ymd, attempt, fngP, btcP, orphans,
                   timers, fng, btc, err, failures, reads, http, aside>>

\* const entry = {...}; log.entries.push(entry); log.entries.sort(...);
\* writeLog(log); main() returns
AppendAndWrite ==
    /\ pc = "assemble"
    /\ entry' = [date |-> ymd,
                 fng_value |-> fng.value,
                 fng_label |-> fng.label,
                 fng_timestamp |-> fng.timestamp,
                 btc_usd |-> btc.usd,
                 btc_idr |-> btc.idr,
                 source |-> btc.sourceNote,
                 created_at_utc |-> toISOString(now)]
    /\ log' = [log EXCEPT !.entries = SortEntries(Append(@, entry'))]
    /\ disk' = writeLog(log')
    /\ writes' = writes + 1
    /\ outcome' = "done"
    /\ pc' = "drain"
    /\ UNCHANGED <<now, exitCode, rerun, disk0, ymd, attempt, fngP, btcP, orphans,
                   timers, fng, btc, err, failures, reads, http, aside>>

\* main() has returned and nothing is pending: the process exits with 0
Exit ==
    /\ pc = "drain"
    /\ timers = EmptyBag
    /\ orphans = EmptyBag
    /\ exitCode' = 0
    /\ pc' = "idle"
    /\ UNCHANGED <<disk, now, outcome, rerun, disk0, ymd, log, attempt, fngP, btcP,
                   orphans, timers, fng, btc, entry, err, failures, reads, writes, http,
                   aside>>

Next ==
    \/ \E d \in Dates : Start(d)
    \/ Skip
    \/ FirstAttempt
    \/ FngRespond
    \/ FngTimeout
    \/ BtcRespond
    \/ BtcTimeout
    \/ OrphanRespond
    \/ OrphanTimeout
    \/ Wake
    \/ AppendAndWrite
    \/ Exit

Spec == Init /\ [][Next]_vars

\* what a process does once it runs: every step but the start of one
Progress ==
    \/ Skip
    \/ FirstAttempt
    \/ FngRespond
    \/ FngTimeout
    \/ BtcRespond
    \/ BtcTimeout
    \/ OrphanRespond
    \/ OrphanTimeout
    \/ Wake
    \/ AppendAndWrite
    \/ Exit

\* the answers of the sentiment service and of CoinGecko when all is well
FngQuote ==
    getFngToday(NetOk([d |-> TRUE, value |-> Str(DecimalChars(ValidFng)),
                       value_classification |-> Str(<<"Greed">>),
                       timestamp |-> Str(DecimalChars(ValidStamp))])).val

BtcQuoted == btc1(NetOk([usd |-> Num(ValidUsd), idr |-> Num(ValidIdr)])).val

\* the file that the first invocation of day d leaves when the sentiment
\* service and CoinGecko answer at once
LoggedDocument(d) ==
    writeLog([site_start |-> Str(todayYmdUTC(d)),
              entries |-> <<[date |-> todayYmdUTC(d),
                             fng_value |-> FngQuote.value,
                             fng_label |-> FngQuote.label,
                             fng_timestamp |-> FngQuote.timestamp,
                             btc_usd |-> BtcQuoted.usd,
                             btc_idr |-> BtcQuoted.idr,
                             source |-> BtcQuoted.sourceNote,
                             created_at_utc |-> toISOString(d)]>>])

\* one invocation, over a file that is absent or holds the entry of a day
RunInit ==
    /\ \E d \in Dates : Idle(AbsentFile, d) \/ Idle(LoggedDocument(d), d)
    /\ t3 = NoTry3
    /\ chain = BtcIdle
    /\ last = NoLast

\* the scheduler starts the invocation
RunStart ==
    /\ reads = 0
    /\ \E d \in Dates : Start(d)

RunNext == RunStart \/ Progress

\* Every HTTP call ends (its timer fires after 12 s if nothing else ends it)
\* and the event loop runs what is ready: a process that can take a step
\* takes one. Nothing makes the scheduler start an invocation.
FairSpec == RunInit /\ [][RunNext]_vars /\ WF_vars(Progress)

\* ------------------------------------------------------- try3 on its own
\* what a provider handed to try3 ends with
Try3Outcomes == {Ok(Num(1)), Ok(Num(2)), Fail("a"), Fail("b")}

\* try3(label, f1, f2, f3) is about to be called, rs[i] being what fi will
\* end with if it is called
Try3Init ==
    /\ Idle(AbsentFile, CHOOSE d \in Dates : TRUE)
    /\ t3 \in {[NoTry3 EXCEPT !.rs = rs] : rs \in [1..3 -> Try3Outcomes]}
    /\ chain = BtcIdle
    /\ last = NoLast

\* try3 is called: it calls f1 and awaits it
Try3Call ==
    /\ t3.st = "idle"
    /\ t3' = [t3 EXCEPT !.calls = <<1>>, !.st = "call"]
    /\ UNCHANGED <<mainVars, chain, last>>

\* the provider try3 awaits ends
Try3Settle ==
    /\ t3.st = "call"
    /\ LET slot == t3.calls[Len(t3.calls)]
           c == try3(slot, t3.rs[slot])
       IN  t3' = CASE c.act = "return" -> [t3 EXCEPT !.st = "return", !.res = c.r]
                   [] c.act = "call" -> [t3 EXCEPT !.calls = Append(@, c.slot)]
                   [] c.act = "throw" -> [t3 EXCEPT !.st = "throw", !.res = c.r]
    /\ UNCHANGED <<mainVars, chain, last>>

Try3Next == Try3Call \/ Try3Settle

Try3Spec == Try3Init /\ [][Try3Next]_vars

\* ------------------------------------------------ getBtcPrice() on its own
\* the bodies of the price and FX services, every field in every form
RichBodies(label) ==
    CASE label \in {"FX1", "FX2", "FX3"} -> {[IDR |-> v] : v \in RichFieldValues(ValidRate)}
      [] label = "BTC1" ->
            {[usd |-> u, idr |-> i] :
                u \in RichFieldValues(ValidUsd), i \in RichFieldValues(ValidIdr)}
      [] label = "BTC2" -> {[price |-> v] : v \in RichFieldValues(ValidUsd)}
      [] label = "BTC3" -> {[amount |-> v] : v \in RichFieldValues(ValidUsd)}

\* what a call of the provider `label` can get, its own timeout apart
RichNets(label) ==
    {NetFail(k) : k \in NetFailures} \cup {NetOk(b) : b \in RichBodies(label)}

\* getBtcPrice() has been called: btc1's request is in flight
ChainInit ==
    /\ Idle(AbsentFile, CHOOSE d \in Dates : TRUE)
    /\ t3 = NoTry3
    /\ chain = BtcCalled(0)
    /\ last = NoLast

\* the fetchJson call the chain is in ends with net
ChainEvent(net) ==
    /\ chain' = BtcStep(chain, net)
    /\ last' = [label |-> CallLabel(chain), slot |-> chain.slot, fxslot |-> chain.fxslot,
                net |-> net]
    /\ UNCHANGED <<mainVars, t3>>

\* a price or FX service answers, or the request fails
ChainRespond ==
    /\ chain.st = "call"
    /\ \E net \in RichNets(CallLabel(chain)) : ChainEvent(net)

\* the timer of the request fires: controller.abort()
ChainTimeout ==
    /\ chain.st = "call"
    /\ ChainEvent(NetFail("abort"))

ChainNext == ChainRespond \/ ChainTimeout

ChainSpec == ChainInit /\ [][ChainNext]_vars

\* --------------------------------- getBtcPrice() on its own, with its timers
\* getBtcPrice() is about to be called, no timer pending
TimedInit ==
    /\ Idle(AbsentFile, CHOOSE d \in Dates : TRUE)
    /\ t3 = NoTry3
    /\ chain = BtcIdle
    /\ last = NoLast

\* getBtcPrice() is called: the fetchJson call of btc1 arms its timer
TimedCall ==
    /\ chain.st = "idle"
    /\ chain' = BtcCalled(0)
    /\ timers' = setTimeout(timers, BtcTimer(chain'))
    /\ UNCHANGED <<disk, now, pc, outcome, exitCode, rerun, disk0, ymd, log, attempt,
                   fngP, btcP, orphans, fng, btc, entry, err, failures, reads, writes,
                   http, t3, last>>

\* the fetchJson call the chain is in ends with net: finally clearTimeout(t);
\* if the chain goes on, the next call arms its timer
TimedEvent(net) ==
    LET b == BtcStep(chain, net)
        tm == clearTimeout(timers, BtcTimer(chain))
    IN  /\ chain' = b
        /\ timers' = IF b.st = "call" THEN setTimeout(tm, BtcTimer(b)) ELSE tm
        /\ last' = [label |-> CallLabel(chain), slot |-> chain.slot,
                    fxslot |-> chain.fxslot, net |-> net]
        /\ UNCHANGED <<disk, now, pc, outcome, exitCode, rerun, disk0, ymd, log,
                       attempt, fngP, btcP, orphans, fng, btc, entry, err, failures,
                       reads, writes, http, t3>>

\* a price or FX service answers, or the request fails
TimedRespond ==
    /\ chain.st = "call"
    /\ \E net \in RichNets(CallLabel(chain)) : TimedEvent(net)

\* the timer of the request fires: controller.abort()
TimedTimeout ==
    /\ chain.st = "call"
    /\ BagIn(BtcTimer(chain), timers)
    /\ TimedEvent(NetFail("abort"))

TimedNext == TimedCall \/ TimedRespond \/ TimedTimeout

TimedChainSpec == TimedInit /\ [][TimedNext]_vars

\* ------------------------------------------------------------------- claims
\* the indices of the entries of the file f that carry the date d
EntriesFor(f, d) == {i \in 1..Len(f.entries) : f.entries[i].date = d}

\* C1: when main() runs twice in sequence for one UTC date and the first run
\* wrote an entry, the second run takes the Skip path (it never starts an
\* attempt and never writes) and the file holds exactly one entry of that
\* date.
C1_SecondRunSkips ==
    rerun =>
        /\ pc \in {"loaded", "drain", "idle"}
        /\ (pc # "loaded" => outcome = "skip")
        /\ writes = 0
        /\ ~http
        /\ disk = disk0
        /\ Cardinality(EntriesFor(disk, ymd)) = 1

\* the second run for a date has ended, by Skip
C1_Witness == rerun /\ pc = "idle" /\ outcome = "skip" /\ exitCode = 0

\* C2: once the third attempt has failed the invocation has ended Fatal, the
\* exit code is not zero, writeLog was not called, and the file is what it
\* was before the invocation.
C2_AllAttemptsFail ==
    failures >= 3 =>
        /\ pc = "idle"
        /\ outcome = "fatal"
        /\ exitCode # 0
        /\ writes = 0
        /\ disk = disk0

\* three attempts failed over a file that held an entry
C2_Witness == failures = 3 /\ outcome = "fatal" /\ disk0.exists /\ disk0.entries # <<>>

\* C3: from an absent or empty file, after any sequence of invocations, the
\* entries of the file ascend strictly by date: sorted, no date twice.
C3_SortedUnique ==
    \A i, j \in 1..Len(disk.entries) :
        i < j => StrLess(disk.entries[i].date, disk.entries[j].date)

\* the newest invocation wrote the entry of the earlier day, which sort
\* moved in front of the entry an earlier invocation wrote
C3_Witness ==
    /\ Len(disk.entries) = 2
    /\ outcome = "done"
    /\ entry.date = disk.entries[1].date
    /\ failures > 0

\* C4: an entry is built and written only when both promises of the current
\* attempt are fulfilled, and its sentiment and price fields are the values
\* of those two promises; the calls of earlier attempts that are still
\* running (orphans) give it nothing.
C4_SameAttempt ==
    (pc = "assemble" \/ writes > 0) =>
        /\ fngP.st = "ok" /\ btcP.st = "ok"
        /\ fngP.att = attempt /\ btcP.att = attempt
        /\ fng = fngP.res /\ btc = btcP.res
        /\ writes > 0 =>
              /\ entry.fng_value = fngP.res.value
              /\ entry.fng_label = fngP.res.label
              /\ entry.fng_timestamp = fngP.res.timestamp
              /\ entry.btc_usd = btcP.res.usd
              /\ entry.btc_idr = btcP.res.idr
              /\ entry.source = btcP.res.sourceNote
              /\ \E i \in EntriesFor(disk, ymd) : disk.entries[i] = StringifyEntry(entry)

\* an entry was written by a later attempt while a call of a failed attempt
\* was still in flight
C4_Witness == writes = 1 /\ attempt > 0 /\ orphans # EmptyBag

\* C5: try3 calls f1, f2, f3 in this order, the next one only after the one
\* before failed; it returns the result of the first that succeeds, and
\* if all three fail it fails with the failure of f3.
C5_Try3Order ==
    /\ \A i \in 1..Len(t3.calls) : t3.calls[i] = i
    /\ \A i \in 1..(Len(t3.calls) - 1) : ~t3.rs[i].ok
    /\ t3.st = "return" =>
          /\ t3.rs[Len(t3.calls)].ok
          /\ t3.res = t3.rs[Len(t3.calls)]
    /\ t3.st = "throw" =>
          /\ Len(t3.calls) = 3
          /\ \A i \in 1..3 : ~t3.rs[i].ok
          /\ t3.res = t3.rs[3]
    /\ t3.st = "call" => Len(t3.calls) \in 1..3

\* all three failed, f3 with another error than f1: try3 threw
C5_Witness == t3.st = "throw" /\ t3.rs[1].err # t3.rs[3].err

\* C6: in an invocation that loaded a file with an entry of today, no HTTP
\* request is issued, no timer armed and the file not written; and in every
\* invocation no request is issued before the check for that entry.
C6_SkipNoNetwork ==
    /\ pc = "loaded" => ~http
    /\ (reads = 1 /\ EntriesFor(disk0, ymd) # {}) =>
          /\ ~http
          /\ writes = 0
          /\ disk = disk0
          /\ timers = EmptyBag
          /\ pc \in {"loaded", "drain", "idle"}

\* main() has returned on the Skip path
C6_Witness == pc = "drain" /\ outcome = "skip" /\ EntriesFor(disk0, ymd) # {}

\* an attempt starts: Promise.all is called
AttemptStarts == pc # "await" /\ pc' = "await"

\* C7: an attempt starts either first (i = 0, nothing failed yet) or from the
\* sleep that followed the failure of the attempt before, with i one more
\* and at most 2; nothing starts after an attempt succeeded; a failure
\* before the third is followed by the delay, the third by the end of the
\* process with no delay.
C7_Step ==
    /\ AttemptStarts =>
          /\ attempt' <= 2
          /\ \/ pc = "loaded" /\ attempt' = 0 /\ failures = 0
             \/ /\ pc = "sleep"
                /\ attempt' = attempt + 1
                /\ failures = attempt'
                /\ BagIn(SleepTimer, timers)
                /\ ~BagIn(SleepTimer, timers')
    /\ (pc = "assemble" \/ outcome = "done") => pc' \notin {"await", "sleep"}
    /\ failures' = failures + 1 =>
          IF failures' < 3
          THEN pc' = "sleep" /\ BagIn(SleepTimer, timers')
          ELSE pc' = "idle" /\ outcome' = "fatal" /\ ~BagIn(SleepTimer, timers')

C7_RetryLoop == [][C7_Step]_vars

\* the third attempt is running
C7_Witness == pc = "await" /\ attempt = 2 /\ failures = 2

\* an invocation has ended in one of the three outcomes
Ended ==
    /\ pc = "idle"
    /\ \/ outcome = "skip" /\ exitCode = 0 /\ writes = 0 /\ disk = disk0
       \/ /\ outcome = "done" /\ exitCode = 0 /\ writes = 1
          /\ Len(disk.entries) = Len(disk0.entries) + 1
       \/ outcome = "fatal" /\ exitCode # 0 /\ writes = 0 /\ disk = disk0 /\ failures = 3

\* C8: every invocation ends, every HTTP call ending, and it ends as Skip
\* (exit 0, no write), Done (exit 0, one entry written) or Fatal (exit not
\* 0, no write); Fatal only after three failed attempts.
C8_Terminates ==
    /\ [](pc = "idle" /\ reads = 1 => Ended)
    /\ (pc # "idle") ~> Ended

\* Done at the third attempt
C8_Witness == pc = "idle" /\ outcome = "done" /\ failures = 2 /\ exitCode = 0

\* a field of a response that is missing, not a number, or zero
InvalidField(v) ==
    \/ v.k \in {"undef", "null"}
    \/ v.k = "str" /\ (v.s = <<>> \/ \E i \in 1..Len(v.s) : ~IsDigit(v.s[i]))
    \/ v.k = "str" /\ \A i \in 1..Len(v.s) : v.s[i] = "0"
    \/ v.k = "num" /\ v.n = 0

\* the numeric fields the provider `label` expects in the body b
ExpectedFields(label, b) ==
    CASE label \in {"FX1", "FX2", "FX3"} -> {b.IDR}
      [] label = "BTC1" -> {b.usd, b.idr}
      [] label = "BTC2" -> {b.price}
      [] label = "BTC3" -> {b.amount}

\* the response handled last had an expected field missing, not a number or
\* zero
LastInvalid ==
    /\ last.net.kind = "ok"
    /\ \E v \in ExpectedFields(last.label, last.net.body) : InvalidField(v)

NonZeroNumber(v) == v.k = "num" /\ v.n # 0

\* C10: no entry of the file carries a non-numeric or zero value in
\* fng_value, fng_timestamp, btc_usd or btc_idr.
C10_NoInvalidPersisted ==
    \A i \in 1..Len(disk.entries) :
        /\ NonZeroNumber(disk.entries[i].fng_value)
        /\ NonZeroNumber(disk.entries[i].fng_timestamp)
        /\ NonZeroNumber(disk.entries[i].btc_usd)
        /\ NonZeroNumber(disk.entries[i].btc_idr)

\* the quantity a valid field of a response stands for
Quantity(v) == IF v.k = "num" THEN v.n ELSE DecimalValue(v.s)

\* the response handled in this step is a body with every expected field
\* valid
ValidResponse ==
    /\ last'.net.kind = "ok"
    /\ \A v \in ExpectedFields(last'.label, last'.net.body) : ~InvalidField(v)

\* how btc2 and btc3 start their sourceNote
NotePrefix(slot) ==
    IF slot = 2 THEN "BTC: Binance (BTCUSDT) + FX: " ELSE "BTC: Coinbase (BTC-USD) + FX: "

\* C11: getBtcPrice() returns on the step that handles a valid response. If
\* it is btc1's, usd and idr are the two fields of that response. If it is
\* the response of an FX provider run inside btc2 or btc3, usd is the price
\* that provider validated before, idr is usd times the rate of this
\* response, and sourceNote names the price provider and this FX provider.
\* This FX provider is the first that succeeded in this provider call: the
\* price is kept from the provider's own valid response on, the FX chain
\* starts at its first provider on that response and moves on by one only on
\* a response that is not valid.
C11_Step ==
    /\ (chain.st = "call" /\ chain'.st = "ok") =>
          /\ ValidResponse
          /\ chain'.slot = chain.slot /\ last'.slot = chain.slot
          /\ IF chain.slot = 1
             THEN /\ chain.fxslot = 0
                  /\ chain'.res.usd = Num(Quantity(last'.net.body.usd))
                  /\ chain'.res.idr = Num(Quantity(last'.net.body.idr))
                  /\ chain'.res.sourceNote = <<"BTC: CoinGecko (USD+IDR)">>
             ELSE /\ chain.fxslot \in 1..3
                  /\ last'.label = FxLabel(chain.fxslot)
                  /\ chain'.res.usd = chain.usd
                  /\ chain'.res.idr =
                        Num(chain.usd.n * Quantity(last'.net.body.IDR))
                  /\ chain'.res.sourceNote =
                        <<NotePrefix(chain.slot), FxSource(last'.label)>>
    /\ (chain.fxslot = 0 /\ chain'.fxslot # 0) =>
          /\ chain.slot \in {2, 3} /\ chain'.slot = chain.slot
          /\ ValidResponse
          /\ chain'.fxslot = 1
          /\ chain'.usd =
                Num(Quantity(IF chain.slot = 2 THEN last'.net.body.price
                             ELSE last'.net.body.amount))
    /\ (chain.fxslot # 0 /\ chain'.st = "call" /\ chain'.fxslot # 0) =>
          /\ ~ValidResponse
          /\ chain'.fxslot = chain.fxslot + 1
          /\ chain'.slot = chain.slot
          /\ chain'.usd = chain.usd
    /\ (chain.fxslot # 0 /\ ValidResponse) => chain'.st = "ok"

C11_FxQuote == [][C11_Step]_vars

\* btc3 won with the rate of the second FX provider
C11_Witness ==
    /\ chain.st = "ok"
    /\ chain.slot = 3
    /\ last.label = "FX2"
    /\ chain.res.idr = Num(ValidUsd * ValidRate)

\* the sequence es without its element number k
Without(es, k) == SubSeq(es, 1, k - 1) \o SubSeq(es, k + 1, Len(es))

\* C12: once an invocation has written, the file holds exactly one entry more
\* than before it, in ascending order of date; the one more is the entry of
\* this invocation, and the others are the entries the file held before, each
\* unchanged in every field and in their order.
C12_AppendFrame ==
    writes > 0 =>
        /\ EntriesFor(disk0, ymd) = {}
        /\ Len(disk.entries) = Len(disk0.entries) + 1
        /\ \A i \in 1..(Len(disk.entries) - 1) :
              StrLess(disk.entries[i].date, disk.entries[i + 1].date)
        /\ \E k \in 1..Len(disk.entries) :
              /\ disk.entries[k] = StringifyEntry(entry)
              /\ disk.entries[k].date = ymd
              /\ Without(disk.entries, k) = disk0.entries

\* an invocation has put its entry in front of the one the file held
C12_Witness ==
    /\ writes = 1
    /\ Len(disk0.entries) = 1
    /\ disk.entries[2] = disk0.entries[1]
    /\ disk.entries[1].date = ymd

\* the file f carries no site_start: it is absent, or the field is null,
\* missing or empty
NoSiteStart(f) == f.site_start \in {Null, Undef, Str(<<>>)}

\* C13: the site_start of the file changes only in the step that writes the
\* entry, and only if it was unset: it is then the date of that entry. A
\* site_start that is set stays as it is in every step, and the steps in
\* which an invocation ends by Skip or Fatal leave the file as it is.
C13_Step ==
    /\ ~NoSiteStart(disk) => disk'.site_start = disk.site_start
    /\ disk'.site_start # disk.site_start =>
          /\ writes' = writes + 1
          /\ outcome' = "done"
    /\ (writes' = writes + 1 /\ NoSiteStart(disk)) =>
          /\ disk'.site_start = Str(entry'.date)
          /\ EntriesFor(disk', entry'.date) # {}
    /\ (outcome' # outcome /\ outcome' \in {"skip", "fatal"}) =>
          /\ disk' = disk
          /\ disk.site_start = disk0.site_start

C13_SiteStart == [][C13_Step]_vars

\* an invocation appended to a file whose site_start was the date of an
\* earlier entry, and it is still that date
C13_Witness ==
    /\ writes = 1
    /\ ~NoSiteStart(disk0)
    /\ disk.site_start = disk0.site_start
    /\ disk.site_start # Str(ymd)

\* the entry main() makes of the values f and b of the two promises
EntryOf(f, b) ==
    [date |-> ymd,
     fng_value |-> f.value, fng_label |-> f.label, fng_timestamp |-> f.timestamp,
     btc_usd |-> b.usd, btc_idr |-> b.idr, source |-> b.sourceNote,
     created_at_utc |-> toISOString(now)]

\* C14: while main() awaits the two calls of an attempt, neither has failed
\* and one at least is pending: it resumes at once when one fails or both
\* have succeeded. It goes on to the entry exactly in the step in which the
\* second of the two succeeds, whichever that is; the one that succeeded
\* first has kept its value through the steps of the other; every other way
\* out of the await is the failure of the attempt. The entry is made of the
\* values of the two promises and of nothing else, so it is the same for
\* both orders.
C14_Step ==
    /\ pc = "await" =>
          /\ fngP.st \in {"call", "ok"}
          /\ btcP.st \in {"call", "ok"}
          /\ fngP.st = "call" \/ btcP.st = "call"
    /\ (pc = "await" /\ pc' = "assemble") =>
          /\ fngP'.st = "ok" /\ btcP'.st = "ok"
          /\ \/ fngP.st = "ok" /\ fngP' = fngP /\ btcP.st = "call"
             \/ btcP.st = "ok" /\ btcP' = btcP /\ fngP.st = "call"
          /\ fng' = fngP'.res /\ btc' = btcP'.res
    /\ (pc = "await" /\ pc' = "await") =>
          /\ fngP.st = "ok" => fngP' = fngP
          /\ btcP.st = "ok" => btcP' = btcP
    /\ (pc = "await" /\ pc' \notin {"await", "assemble"}) =>
          /\ failures' = failures + 1
          /\ writes' = 0
    /\ pc' = "assemble" => pc \in {"await", "assemble"}
    /\ (pc = "assemble" /\ pc' # "assemble") =>
          /\ entry' = EntryOf(fngP.res, btcP.res)
          /\ fngP' = fngP /\ btcP' = btcP

C14_JointAwait == [][C14_Step]_vars

\* the price chain has succeeded, after a fallback, and main() still waits
\* for the sentiment call
C14_Witness == pc = "await" /\ btcP.st = "ok" /\ btcP.slot > 1 /\ fngP.st = "call"

\* the other order: the sentiment call has succeeded and the price chain runs
C14_OtherOrder == pc = "await" /\ fngP.st = "ok" /\ btcP.st = "call"

\* C15: an FX request exists only inside btc2 or btc3, which then holds a
\* valid price; the FX chain starts, at its first provider, in the step that
\* handles the valid response to the price request of that same provider, so
\* never while that request is in flight and never inside btc1; the price
\* providers are never gone back to, and an FX chain that has ended without
\* a rate ends its price provider, so it runs at most once in btc2 and once
\* in btc3.
C15_Step ==
    /\ chain.fxslot # 0 =>
          /\ chain.slot \in {2, 3}
          /\ chain.usd.k = "num" /\ chain.usd.n # 0
    /\ (chain.fxslot = 0 /\ chain'.fxslot # 0) =>
          /\ chain.st = "call" /\ chain'.st = "call"
          /\ chain.slot \in {2, 3} /\ chain'.slot = chain.slot
          /\ chain'.fxslot = 1
          /\ last'.label = BtcLabel(chain.slot)
          /\ ValidResponse
    /\ (chain.fxslot = 0 /\ chain.st = "call" /\ ~ValidResponse) => chain'.fxslot = 0
    /\ chain'.slot >= chain.slot /\ chain'.slot <= 3
    /\ (chain.fxslot # 0 /\ chain'.fxslot = 0) => chain'.slot = chain.slot + 1
    /\ (chain'.st = "ok" /\ chain'.slot = 1) => chain'.fxslot = 0 /\ chain.fxslot = 0

C15_FxSequencing == [][C15_Step]_vars

\* btc3 has its valid price and its first FX request is in flight
C15_Witness ==
    /\ chain.st = "call"
    /\ chain.slot = 3
    /\ chain.fxslot = 1
    /\ last.label = "BTC3"

\* C16: an invocation calls readLog once, in its first step, and never
\* again; the entries of its document change only then and in the one step
\* that appends; the file changes only in that step, which writes the
\* document with the entry in it, happens at most once, and after which the
\* invocation changes neither document nor file; an invocation that ends by
\* Skip or Fatal has not written.
C16_Step ==
    /\ pc # "idle" => reads = 1 /\ writes <= 1
    /\ IF pc = "idle" /\ pc' # "idle"
       THEN /\ reads' = 1 /\ writes' = 0
            /\ log'.entries = disk.entries
            /\ disk' = disk
       ELSE /\ reads' = reads
            /\ writes' \in {writes, writes + 1}
            /\ log'.entries # log.entries => writes' = writes + 1
    /\ (writes' = writes + 1 /\ pc # "idle") =>
          /\ writes = 0
          /\ log.entries = disk0.entries
          /\ Len(log'.entries) = Len(log.entries) + 1
          /\ disk' = writeLog(log')
          /\ outcome' = "done"
    /\ disk' # disk => (writes' = writes + 1 /\ pc # "idle")
    /\ (writes = 1 /\ pc # "idle") =>
          /\ disk' = disk /\ log' = log /\ entry' = entry /\ writes' = writes
          /\ pc' \in {"drain", "idle"}
    /\ outcome' \in {"skip", "fatal"} => writes' = 0 /\ disk' = disk0'

C16_ReadWriteOnce == [][C16_Step]_vars

\* main() has read once and written once, and has returned
C16_Witness == pc = "drain" /\ reads = 1 /\ writes = 1 /\ orphans = EmptyBag

\* the call at price provider slot, FX provider fxslot (0: the price request
\* itself) is the last of the price chain: its failure is the chain's
LastOfChain(slot, fxslot) == slot = 3 /\ fxslot \in {0, 3}

\* the call that follows when that call fails: the next FX provider, or the
\* next price provider after the third FX provider or the price request
CallAfter(slot, fxslot) ==
    IF fxslot \in {1, 2} THEN <<slot, fxslot + 1>> ELSE <<slot + 1, 0>>

\* C17: when the timer of a call fires, only that call ends, as a failure of
\* its provider. In the price chain the next provider is called, the
\* attempt goes on and the sentiment call is left as it is, its timer
\* pending; only the timeout of the last call of the chain fails the
\* attempt. The timeout of the sentiment call fails the attempt and leaves
\* the price chain running with its timer (unless it was the third attempt,
\* which ends the process). The timeout of a call left over from a failed
\* attempt touches neither the attempt nor its two calls.
C17_Step ==
    /\ BtcTimeout =>
          IF LastOfChain(btcP.slot, btcP.fxslot)
          THEN failures' = failures + 1
          ELSE /\ failures' = failures /\ attempt' = attempt /\ pc' = "await"
               /\ btcP'.st = "call"
               /\ <<btcP'.slot, btcP'.fxslot>> = CallAfter(btcP.slot, btcP.fxslot)
               /\ BagIn(BtcTimer(btcP'), timers')
               /\ fngP' = fngP
               /\ CopiesIn(FngTimer, timers') = CopiesIn(FngTimer, timers)
    /\ (BtcTimeout /\ failures' < 3 /\ fngP.st = "call") =>
          /\ CopiesIn(FngTimer, timers') = CopiesIn(FngTimer, timers)
          /\ LastOfChain(btcP.slot, btcP.fxslot) =>
                CopiesIn(FngOrphan, orphans') = CopiesIn(FngOrphan, orphans) + 1
    /\ FngTimeout =>
          /\ failures' = failures + 1
          /\ (failures' < 3 /\ btcP.st = "call") =>
                /\ CopiesIn(BtcOrphan(btcP), orphans')
                      = CopiesIn(BtcOrphan(btcP), orphans) + 1
                /\ CopiesIn(BtcTimer(btcP), timers') = CopiesIn(BtcTimer(btcP), timers)
    /\ OrphanTimeout =>
          /\ failures' = failures /\ attempt' = attempt /\ pc' = pc
          /\ fngP' = fngP /\ btcP' = btcP
          /\ BagCardinality(orphans') >= BagCardinality(orphans) - 1
          /\ BagCardinality(timers') >= BagCardinality(timers) - 1

C17_TimeoutIsLocal == [][C17_Step]_vars

\* in the first attempt a call of the price chain has failed and the second
\* price provider is being tried, while the sentiment call is still pending
\* with its timer
C17_Witness ==
    /\ pc = "await"
    /\ attempt = 0
    /\ btcP.slot = 2 /\ btcP.st = "call"
    /\ fngP.st = "call"
    /\ BagIn(FngTimer, timers)

\* the ways a fetchJson call ends: a body, a non-success status, a network
\* error, a body that does not parse, the abort by its timer
FetchEnds == {"ok", "http", "neterr", "parse", "abort"}

\* C18: whichever way a fetchJson call has ended, the timer it armed is not
\* pending; the only timer pending is that of the call in flight, if there is
\* one, so that no timer of a call that has ended is left to fire.
C18_TimerReleased ==
    /\ last # NoLast =>
          /\ last.net.kind \in FetchEnds
          /\ chain.st = "call" => <<last.slot, last.fxslot>> # <<chain.slot, chain.fxslot>>
          /\ ~BagIn(<<"btc", last.slot, last.fxslot>>, timers)
    /\ timers = IF chain.st = "call" THEN SetToBag({BtcTimer(chain)}) ELSE EmptyBag

\* the last call of the chain was aborted by its timer, and no timer is left
C18_Witness ==
    /\ last.net.kind = "abort"
    /\ last.label = "FX3"
    /\ chain.st = "fail"
    /\ timers = EmptyBag

\* a call ended on a body that does not parse, and the next call is in flight
C18_Unparsable == last.net.kind = "parse" /\ chain.st = "call" /\ BagCardinality(timers) = 1

====
